---- MODULE Spec2Model ----
(***************************************************************************)
(* Model of the `fallout` attribute of plutonium (src/src/lib.rs): the     *)
(* rewrite of the top-level `match` statements of a function body into     *)
(* C-style fallthrough arms.                                               *)
(*                                                                         *)
(* Syntax trees are records of one shape.  An expression is                *)
(*   [kind, id, stmts, arms]   kind in Break, Tuple, Other, Block, Unsafe, *)
(*                             Loop, Match                                 *)
(* a statement is [skind, expr] with skind in Local, Item, Expr, Semi, and *)
(* an arm is [pat, guard, body].  Patterns, guards and the ids of opaque   *)
(* expressions are never inspected by the code; they are labels.           *)
(***************************************************************************)
EXTENDS Integers, Sequences, FiniteSets, TLC

VARIABLES
    item,            \* the TokenStream handed to `fallout`
    pass,            \* "first" | "second": which application of the attribute
    pc,              \* position in fallout / fallthrough_stmts / fallthrough_expr
    stmt_idx,        \* fallthrough_stmts: statements the for loop has consumed
    fallthru_stmts,  \* fallthrough_stmts: the Vec<Stmt> built so far
    arm_exprs,       \* FallThru.arm_exprs: the accumulator of the arm masher
    arm_ending,      \* fold_arm: the ArmEnd of the arm visited last
    mashed_arms,     \* fallthrough_expr: arms folded so far, bottom arm first
    result           \* the TokenStream returned by `fallout`

vars == <<item, pass, pc, stmt_idx, fallthru_stmts, arm_exprs, arm_ending, mashed_arms, result>>

(***************************************************************************)
(* Bounds of the explored inputs.                                          *)
(***************************************************************************)
MaxStmts == 2      \* statements of a function body
MaxArms == 3       \* arms of all the match statements of one function
MaxBlockLen == 2   \* statements of a block used as an arm body

(***************************************************************************)
(* Syntax tree constructors (syn::Expr, syn::Stmt, syn::Arm).              *)
(***************************************************************************)
MkExpr(kind, id, stmts, arms) ==
    [kind |-> kind, id |-> id, stmts |-> stmts, arms |-> arms]

ExprBreak == MkExpr("Break", 0, <<>>, <<>>)
ExprUnit == MkExpr("Tuple", 0, <<>>, <<>>)
ExprOther(id) == MkExpr("Other", id, <<>>, <<>>)
ExprBlock(stmts) == MkExpr("Block", 0, stmts, <<>>)
ExprUnsafe(stmts) == MkExpr("Unsafe", 0, stmts, <<>>)
ExprLoop(stmts) == MkExpr("Loop", 0, stmts, <<>>)
ExprMatch(id, arms) == MkExpr("Match", id, <<>>, arms)

StmtLocal(init) == [skind |-> "Local", expr |-> init]
StmtItem(id) == [skind |-> "Item", expr |-> ExprOther(id)]
StmtExpr(e) == [skind |-> "Expr", expr |-> e]
StmtSemi(e) == [skind |-> "Semi", expr |-> e]

Arm(pat, guard, body) == [pat |-> pat, guard |-> guard, body |-> body]

ItemFn(sig, stmts) == [isfn |-> TRUE, sig |-> sig, stmts |-> stmts]
ItemOther(tokens) == [isfn |-> FALSE, sig |-> tokens, stmts |-> <<>>]

Reverse(s) == [p \in 1..Len(s) |-> s[Len(s) - p + 1]]

Last(s) == s[Len(s)]

Front(s) == SubSeq(s, 1, Len(s) - 1)

(***************************************************************************)
(* FallThru::parse_arm: the arm body without its trailing break, and the   *)
(* ArmEnd classification.                                                  *)
(***************************************************************************)
IsBreakStmt(st) == st.skind \in {"Expr", "Semi"} /\ st.expr.kind = "Break"

\* lines 319-326: the statements left once the trailing break is popped
PopSemi(stmts) ==
    IF Len(stmts) = 0 THEN stmts
    ELSE IF Last(stmts).skind = "Semi"
         THEN Append(Front(stmts), StmtExpr(Last(stmts).expr))
         ELSE stmts

parse_arm_keeps_break(expr) ==
    IF expr.kind = "Break" THEN <<expr, "Break">>
    ELSE IF expr.kind = "Block" /\ Len(expr.stmts) > 0 /\ IsBreakStmt(Last(expr.stmts))
         THEN <<[expr EXCEPT !.stmts = PopSemi(Front(expr.stmts))], "Break">>
         ELSE <<expr, "FallThru">>

parse_arm_keeps_semi(expr) ==
    IF expr.kind = "Break" THEN <<ExprUnit, "Break">>
    ELSE IF expr.kind = "Block" /\ Len(expr.stmts) > 0 /\ IsBreakStmt(Last(expr.stmts))
         THEN <<[expr EXCEPT !.stmts = Front(expr.stmts)], "Break">>
         ELSE <<expr, "FallThru">>

parse_arm(expr) ==
    IF expr.kind = "Break" THEN <<ExprUnit, "Break">>
    ELSE IF expr.kind = "Block" /\ Len(expr.stmts) > 0 /\ IsBreakStmt(Last(expr.stmts))
         THEN <<[expr EXCEPT !.stmts = PopSemi(Front(expr.stmts))], "Break">>
         ELSE <<expr, "FallThru">>

(***************************************************************************)
(* FallThru::as_arm_body: the block synthesized from the accumulator.      *)
(* The statements are built oldest entry first, entry 0 as an expression   *)
(* and the others with a semicolon, and then reversed.                     *)
(***************************************************************************)
ArmStmts(exprs) ==
    [i \in 1..Len(exprs) |-> IF i = 1 THEN StmtExpr(exprs[i]) ELSE StmtSemi(exprs[i])]

as_arm_body_unreversed(exprs) == ExprBlock(ArmStmts(exprs))

as_arm_body_value_first(exprs) ==
    ExprBlock([i \in 1..Len(exprs) |->
                  IF i = 1 THEN StmtExpr(exprs[Len(exprs)])
                  ELSE StmtSemi(exprs[Len(exprs) - i + 1])])

as_arm_body(exprs) == ExprBlock(Reverse(ArmStmts(exprs)))

\* line 281: the guard of the panic
as_arm_body_panics(exprs) == Len(exprs) = 0

(***************************************************************************)
(* FallThru::fold_arm: the accumulator after the arm is visited (lines     *)
(* 266-270) and the rewritten arm (lines 271-272).                         *)
(***************************************************************************)
push_arm_expr_clear_after(exprs, arm) ==
    IF parse_arm(arm.body)[2] = "Break" THEN <<>>
    ELSE Append(exprs, parse_arm(arm.body)[1])

push_arm_expr_never_clears(exprs, arm) == Append(exprs, parse_arm(arm.body)[1])

push_arm_expr(exprs, arm) ==
    Append(IF parse_arm(arm.body)[2] = "Break" THEN <<>> ELSE exprs,
           parse_arm(arm.body)[1])

fold_arm(exprs, arm) == [arm EXCEPT !.body = as_arm_body(push_arm_expr(exprs, arm))]

(***************************************************************************)
(* fallthrough_expr and fallthrough_stmts, the parts that are not a loop.  *)
(***************************************************************************)
\* line 248: only an expression that is itself a match is rewritten
IsMatch(expr) == expr.kind = "Match"

\* line 256: any other expression is cloned
WrapArms(arms) ==
    [a \in 1..Len(arms) |-> Arm(arms[a].pat, arms[a].guard, ExprBlock(<<StmtExpr(arms[a].body)>>))]

WrapNested(stmts) ==
    [p \in 1..Len(stmts) |->
        IF stmts[p].expr.kind = "Match"
        THEN [skind |-> stmts[p].skind,
              expr |-> ExprMatch(stmts[p].expr.id, WrapArms(stmts[p].expr.arms))]
        ELSE stmts[p]]

fallthrough_expr_recursing(expr) == [expr EXCEPT !.stmts = WrapNested(@)]

fallthrough_expr_other(expr) == expr

\* lines 251-254: the rewritten match, arms put back in source order
collect_unreversed(m, mashed) == [m EXCEPT !.arms = mashed]

collect_match(m, mashed) == [m EXCEPT !.arms = Reverse(mashed)]

\* line 237: a let or an item is cloned
local_or_item(stmts, stmt) == Append(stmts, stmt)

\* lines 238-239: the statement keeps its form, with or without semicolon
with_expr(stmt, expr) == [stmt EXCEPT !.expr = expr]

\* line 230: the item is returned when it is no function
not_a_fn_empty(it) == ItemOther(0)

not_a_fn(it) == it

\* lines 227-228: the function with the new statements
rewritten_fn(fn, stmts) == [fn EXCEPT !.stmts = stmts]

(***************************************************************************)
(* The inputs explored.  Arm j of a match carries the pattern j and a body *)
(* labelled j, so that every arm and every body is told apart.             *)
(***************************************************************************)
ArmBodies(j) ==
    { ExprOther(j),
      ExprBreak,
      ExprBlock(<<StmtSemi(ExprOther(j)), StmtSemi(ExprBreak)>>) }

RECURSIVE ArmSeqs(_)
ArmSeqs(n) ==
    IF n = 0 THEN {<<>>}
    ELSE {Append(s, Arm(n, n % 2, b)) : s \in ArmSeqs(n - 1), b \in ArmBodies(n)}

NestedMatch == ExprMatch(7, <<Arm(1, 0, ExprOther(1)), Arm(2, 0, ExprBreak)>>)

\* a match statement, without and with semicolon
MatchStmts(arms) == {StmtExpr(ExprMatch(5, arms)), StmtSemi(ExprMatch(6, arms))}

\* the statements that hold exactly a arms at the top level
StmtsWithArms(a) ==
    IF a = 0 THEN {StmtLocal(NestedMatch)}
    ELSE UNION {MatchStmts(arms) : arms \in ArmSeqs(a)}

\* the bodies of n statements with at most budget top-level arms in all
RECURSIVE StmtSeqs(_, _)
StmtSeqs(n, budget) ==
    IF n = 0 THEN {<<>>}
    ELSE UNION { {Append(s, st) : s \in StmtSeqs(n - 1, budget - a), st \in StmtsWithArms(a)}
                 : a \in 0..budget }

BudgetFns == UNION { {ItemFn(1, stmts) : stmts \in StmtSeqs(n, MaxArms)} : n \in 0..MaxStmts }

\* the bodies of at most MaxStmts statements, each one no match, a match
\* nested in another expression, or a match without arms
PlainStmts ==
    { StmtLocal(NestedMatch),
      StmtItem(8),
      StmtSemi(ExprOther(9)),
      StmtExpr(ExprUnsafe(<<StmtExpr(NestedMatch)>>)),
      StmtSemi(ExprLoop(<<StmtSemi(NestedMatch)>>)),
      StmtExpr(ExprBlock(<<StmtExpr(NestedMatch)>>)),
      StmtSemi(ExprMatch(6, <<>>)),
      StmtExpr(ExprMatch(5, <<Arm(1, 0, NestedMatch)>>)) }

RECURSIVE PlainSeqs(_)
PlainSeqs(n) ==
    IF n = 0 THEN {<<>>}
    ELSE UNION {PlainSeqs(n - 1), {Append(s, st) : s \in PlainSeqs(n - 1), st \in PlainStmts}}

PlainFns == {ItemFn(3, stmts) : stmts \in PlainSeqs(MaxStmts)}

\* every block of at most MaxBlockLen statements over BlockStmts, and the
\* bodies that are no block
BlockStmts ==
    { StmtSemi(ExprOther(1)), StmtExpr(ExprOther(2)), StmtLocal(ExprBreak),
      StmtSemi(ExprBreak), StmtExpr(ExprBreak) }

RECURSIVE BlockSeqs(_)
BlockSeqs(n) ==
    IF n = 0 THEN {<<>>}
    ELSE UNION {BlockSeqs(n - 1), {Append(s, st) : s \in BlockSeqs(n - 1), st \in BlockStmts}}

OtherBodies ==
    { ExprBreak, ExprUnit, ExprOther(1), NestedMatch,
           ExprUnsafe(<<StmtSemi(ExprBreak)>>),
           ExprLoop(<<StmtSemi(ExprBreak)>>),
           ExprBlock(<<StmtExpr(ExprBlock(<<StmtSemi(ExprBreak)>>))>>),
           ExprBlock(<<StmtSemi(ExprOther(1)), StmtSemi(ExprOther(2)), StmtSemi(ExprBreak)>>) }

ShapedBodies == UNION {{ExprBlock(stmts) : stmts \in BlockSeqs(MaxBlockLen)}, OtherBodies}

ShapedFns ==
    { ItemFn(2, <<StmtSemi(ExprMatch(5, <<Arm(1, 0, b), Arm(2, 1, ExprOther(2))>>))>>)
        : b \in ShapedBodies }

Items == UNION {{ItemOther(3), ItemOther(4)}, BudgetFns, PlainFns, ShapedFns}

(***************************************************************************)
(* State machine.                                                          *)
(***************************************************************************)
Init ==
    /\ item \in Items
    /\ pass = "first"
    /\ pc = "fallout"
    /\ stmt_idx = 0
    /\ fallthru_stmts = <<>>
    /\ arm_exprs = <<>>
    /\ arm_ending = "None"
    /\ mashed_arms = <<>>
    /\ result = ItemOther(0)

\* the statement the loop of fallthrough_stmts is at
HasStmt == stmt_idx < Len(item.stmts)
CurStmt == item.stmts[stmt_idx + 1]
\* the arms of the match being rewritten, and the arm the reverse iterator is at
CurArms == CurStmt.expr.arms
HasArm == Len(mashed_arms) < Len(CurArms)
CurArm == CurArms[Len(CurArms) - Len(mashed_arms)]

\* fallout, line 226 failing and line 230
FalloutNotAFn ==
    /\ pc = "fallout"
    /\ ~item.isfn
    /\ result' = not_a_fn(item)
    /\ pc' = "returned"
    /\ UNCHANGED <<stmt_idx, item, pass, fallthru_stmts, arm_exprs, arm_ending, mashed_arms>>

\* fallout, line 226 succeeding; fallthrough_stmts, line 234
FalloutFn ==
    /\ pc = "fallout"
    /\ item.isfn
    /\ stmt_idx' = 0
    /\ fallthru_stmts' = <<>>
    /\ pc' = "stmts"
    /\ UNCHANGED <<item, pass, arm_exprs, arm_ending, mashed_arms, result>>

\* fallthrough_stmts, line 237
StmtLocalOrItem ==
    /\ pc = "stmts"
    /\ HasStmt
    /\ CurStmt.skind \in {"Local", "Item"}
    /\ stmt_idx' = stmt_idx + 1
    /\ fallthru_stmts' = local_or_item(fallthru_stmts, CurStmt)
    /\ UNCHANGED <<item, pass, pc, arm_exprs, arm_ending, mashed_arms, result>>

\* fallthrough_stmts, lines 238-239, with fallthrough_expr taking line 256
StmtOtherExpr ==
    /\ pc = "stmts"
    /\ HasStmt
    /\ CurStmt.skind \in {"Expr", "Semi"}
    /\ ~IsMatch(CurStmt.expr)
    /\ stmt_idx' = stmt_idx + 1
    /\ fallthru_stmts' =
           Append(fallthru_stmts, with_expr(CurStmt, fallthrough_expr_other(CurStmt.expr)))
    /\ UNCHANGED <<item, pass, pc, arm_exprs, arm_ending, mashed_arms, result>>

\* fallthrough_expr, lines 248-249: a fresh arm masher
MatchBeginSharedMasher ==
    /\ pc = "stmts"
    /\ HasStmt
    /\ CurStmt.skind \in {"Expr", "Semi"}
    /\ IsMatch(CurStmt.expr)
    /\ arm_ending' = "None"
    /\ mashed_arms' = <<>>
    /\ pc' = "arms"
    /\ UNCHANGED <<stmt_idx, item, pass, fallthru_stmts, arm_exprs, result>>

MatchBegin ==
    /\ pc = "stmts"
    /\ HasStmt
    /\ CurStmt.skind \in {"Expr", "Semi"}
    /\ IsMatch(CurStmt.expr)
    /\ arm_exprs' = <<>>
    /\ arm_ending' = "None"
    /\ mashed_arms' = <<>>
    /\ pc' = "arms"
    /\ UNCHANGED <<stmt_idx, item, pass, fallthru_stmts, result>>

\* fallthrough_expr, line 250: one step of the reversed iterator, fold_arm
FoldArm ==
    /\ pc = "arms"
    /\ HasArm
    /\ arm_ending' = parse_arm(CurArm.body)[2]
    /\ arm_exprs' = push_arm_expr(arm_exprs, CurArm)
    /\ IF as_arm_body_panics(arm_exprs')
       THEN pc' = "panic" /\ UNCHANGED mashed_arms
       ELSE pc' = pc /\ mashed_arms' = Append(mashed_arms, fold_arm(arm_exprs, CurArm))
    /\ UNCHANGED <<stmt_idx, item, pass, fallthru_stmts, result>>

\* fallthrough_expr, lines 251-254, and the push of lines 238-239
MatchEnd ==
    /\ pc = "arms"
    /\ ~HasArm
    /\ stmt_idx' = stmt_idx + 1
    /\ fallthru_stmts' =
           Append(fallthru_stmts, with_expr(CurStmt, collect_match(CurStmt.expr, mashed_arms)))
    /\ pc' = "stmts"
    /\ UNCHANGED <<item, pass, arm_exprs, arm_ending, mashed_arms, result>>

\* fallthrough_stmts, line 242; fallout, lines 227-228
FalloutReturn ==
    /\ pc = "stmts"
    /\ ~HasStmt
    /\ result' = rewritten_fn(item, fallthru_stmts)
    /\ pc' = "returned"
    /\ UNCHANGED <<stmt_idx, item, pass, fallthru_stmts, arm_exprs, arm_ending, mashed_arms>>

\* the attribute applied to its own output: fallout called on the result
Reapply ==
    /\ pc = "returned"
    /\ pass = "first"
    /\ item' = result
    /\ pass' = "second"
    /\ pc' = "fallout"
    /\ UNCHANGED <<stmt_idx, fallthru_stmts, arm_exprs, arm_ending, mashed_arms, result>>

Next ==
    \/ FalloutNotAFn
    \/ FalloutFn
    \/ StmtLocalOrItem
    \/ StmtOtherExpr
    \/ MatchBegin
    \/ FoldArm
    \/ MatchEnd
    \/ FalloutReturn
    \/ Reapply

Spec == Init /\ [][Next]_vars

(***************************************************************************)
(* Vocabulary of the properties.                                           *)
(***************************************************************************)
\* a statement that is exactly a match, with or without semicolon
IsTopMatch(st) == st.skind \in {"Expr", "Semi"} /\ st.expr.kind = "Match"

\* the function has been rewritten and returned
Returned == pc = "returned" /\ item.isfn

\* the positions of the top-level match statements of the input
MatchIdx == {j \in 1..Len(item.stmts) : IsTopMatch(item.stmts[j])}

InArms(j) == item.stmts[j].expr.arms
OutArms(j) == result.stmts[j].expr.arms

IsBreakArm(arm) == parse_arm(arm.body)[2] = "Break"
Bodies(arms) == [a \in 1..Len(arms) |-> arms[a].body]
Stripped(arms) == [a \in 1..Len(arms) |-> parse_arm(arms[a].body)[1]]

\* the bodies i..k as statements, all discarded but the last
ChainStmts(bodies, i, k) ==
    [p \in 1..(k - i + 1) |->
        IF p = k - i + 1 THEN StmtExpr(bodies[k]) ELSE StmtSemi(bodies[i + p - 1])]

\* an arm has been visited by the scan of the current match, and which one
ArmVisited == pc = "arms" /\ Len(mashed_arms) >= 1
VisitedIdx == Len(CurArms) - Len(mashed_arms) + 1
VisitedArm == CurArms[VisitedIdx]

\* C1: in a match without Break arms, the rewritten body of arm i is the block
\* of the original bodies of arms i..N in that order, each one a discarded
\* statement except the body of the last arm, which is the value of the block;
\* the bottom arm holds its own body only.
C1_FallthroughChain ==
    Returned =>
        /\ Len(result.stmts) = Len(item.stmts)
        /\ \A j \in MatchIdx :
              (\A a \in 1..Len(InArms(j)) : ~IsBreakArm(InArms(j)[a])) =>
                  /\ Len(OutArms(j)) = Len(InArms(j))
                  /\ \A i \in 1..Len(InArms(j)) :
                        OutArms(j)[i].body =
                            ExprBlock(ChainStmts(Bodies(InArms(j)), i, Len(InArms(j))))
                  /\ Len(InArms(j)) >= 1 =>
                        OutArms(j)[Len(InArms(j))].body.stmts =
                            <<StmtExpr(InArms(j)[Len(InArms(j))].body)>>

C1_Witness ==
    /\ Returned
    /\ pass = "first"
    /\ \E j \in MatchIdx :
          /\ Len(InArms(j)) >= 3
          /\ \A a \in 1..Len(InArms(j)) : ~IsBreakArm(InArms(j)[a])
          /\ Len(OutArms(j)[1].body.stmts) = Len(InArms(j))

\* C2 as stated: for every Break arm k and every arm i at or above it, the
\* rewritten body of arm i is the chain of the bodies of arms i..k.
C2_AnyBreakBelow ==
    Returned =>
        \A j \in MatchIdx : \A k \in 1..Len(InArms(j)) : \A i \in 1..k :
            IsBreakArm(InArms(j)[k]) =>
                OutArms(j)[i].body = ExprBlock(ChainStmts(Stripped(InArms(j)), i, k))

\* C2 amended: for every Break arm k and every arm i at or above it with no
\* Break arm in i..k-1 (k is the nearest Break arm at or below i), the
\* rewritten body of arm i is the chain of the break-stripped bodies of arms
\* i..k and holds no body of an arm below k.
C2_NearestBreak ==
    Returned =>
        \A j \in MatchIdx : \A k \in 1..Len(InArms(j)) : \A i \in 1..k :
            (/\ IsBreakArm(InArms(j)[k])
             /\ \A m \in i..(k - 1) : ~IsBreakArm(InArms(j)[m])) =>
                /\ OutArms(j)[i].body = ExprBlock(ChainStmts(Stripped(InArms(j)), i, k))
                /\ Len(OutArms(j)[i].body.stmts) = k - i + 1

C2_Witness ==
    /\ Returned
    /\ pass = "first"
    /\ \E j \in MatchIdx : \E k \in 1..Len(InArms(j)) : \E i \in 1..k :
          /\ i < k
          /\ k < Len(InArms(j))
          /\ IsBreakArm(InArms(j)[k])
          /\ \A m \in i..(k - 1) : ~IsBreakArm(InArms(j)[m])
          /\ Len(OutArms(j)[i].body.stmts) = k - i + 1

\* C3: the rewrite keeps the number of arms, their order and the pattern and
\* guard of every arm; only arm bodies differ.
C3_ArmsKept ==
    Returned =>
        /\ Len(result.stmts) = Len(item.stmts)
        /\ \A j \in MatchIdx :
              /\ result.stmts[j].skind = item.stmts[j].skind
              /\ result.stmts[j].expr.kind = "Match"
              /\ result.stmts[j].expr.id = item.stmts[j].expr.id
              /\ Len(OutArms(j)) = Len(InArms(j))
              /\ \A a \in 1..Len(InArms(j)) :
                    /\ OutArms(j)[a].pat = InArms(j)[a].pat
                    /\ OutArms(j)[a].guard = InArms(j)[a].guard

C3_Witness ==
    /\ Returned
    /\ \E j \in MatchIdx :
          /\ Len(InArms(j)) >= 3
          /\ OutArms(j)[1].body # InArms(j)[1].body
          /\ OutArms(j)[1].pat # OutArms(j)[3].pat

\* C4: the rewritten body has the length of the input, and every statement
\* that is not itself a match is the statement of the input, a match nested in
\* a let, a block, an unsafe block or a loop included; a match that is the
\* body of an arm is carried into the rewritten arm as it was.
C4_OtherStmtsKept ==
    Returned =>
        /\ Len(result.stmts) = Len(item.stmts)
        /\ \A j \in 1..Len(item.stmts) :
              ~IsTopMatch(item.stmts[j]) => result.stmts[j] = item.stmts[j]
        /\ \A j \in MatchIdx : \A a \in 1..Len(InArms(j)) :
              InArms(j)[a].body.kind = "Match" =>
                  OutArms(j)[a].body.stmts[1].expr = InArms(j)[a].body

C4_Witness ==
    /\ Returned
    /\ pass = "first"
    /\ \E j1, j2 \in 1..Len(item.stmts) :
          /\ item.stmts[j1].skind = "Local"
          /\ item.stmts[j1].expr.kind = "Match"
          /\ item.stmts[j2].skind = "Expr"
          /\ item.stmts[j2].expr.kind = "Unsafe"
          /\ item.stmts[j2].expr.stmts[1].expr.kind = "Match"
          /\ result.stmts[j2] = item.stmts[j2]

\* C5: an item that is no function is returned as received, without reaching
\* the rewriter or its panic; of a function only the statements are replaced.
C5_NotAFnPassThrough ==
    /\ ~item.isfn => pc \in {"fallout", "returned"}
    /\ pc = "returned" =>
          /\ ~item.isfn => result = item
          /\ item.isfn => result.isfn /\ result.sig = item.sig

C5_Witness == pc = "returned" /\ ~item.isfn /\ result = item /\ pass = "first"

\* the synthesized body lists the accumulator newest entry first, and keeps
\* exactly one entry as an expression
SynthOrdered ==
    /\ Last(mashed_arms).body.kind = "Block"
    /\ Len(Last(mashed_arms).body.stmts) = Len(arm_exprs)
    /\ \A p \in 1..Len(arm_exprs) :
          Last(mashed_arms).body.stmts[p].expr = arm_exprs[Len(arm_exprs) - p + 1]
    /\ Cardinality({p \in 1..Len(arm_exprs) :
                       Last(mashed_arms).body.stmts[p].skind = "Expr"}) = 1
    /\ \A p \in 1..Len(arm_exprs) :
          Last(mashed_arms).body.stmts[p].skind \in {"Expr", "Semi"}

\* C6 as stated: the entry kept as an expression is the own body of the arm.
C6_ValueIsOwnBody ==
    ArmVisited =>
        /\ SynthOrdered
        /\ \A p \in 1..Len(arm_exprs) :
              Last(mashed_arms).body.stmts[p].skind = "Expr" =>
                  Last(mashed_arms).body.stmts[p].expr = parse_arm(VisitedArm.body)[1]

\* C6 amended: the entry kept as an expression is the last statement of the
\* block, the oldest entry of the accumulator; the own body of the arm is the
\* first statement, and it is the value only when it is the sole entry.
C6_ValueIsOldest ==
    ArmVisited =>
        /\ SynthOrdered
        /\ \A p \in 1..Len(arm_exprs) :
              Last(mashed_arms).body.stmts[p].skind = "Expr" =>
                  /\ p = Len(arm_exprs)
                  /\ Last(mashed_arms).body.stmts[p].expr = arm_exprs[1]
        /\ Last(mashed_arms).body.stmts[1].expr = parse_arm(VisitedArm.body)[1]
        /\ Last(mashed_arms).body.stmts[1].skind = "Expr" <=> Len(arm_exprs) = 1

C6_Witness ==
    /\ ArmVisited
    /\ Len(arm_exprs) >= 3
    /\ arm_exprs[1] # arm_exprs[3]
    /\ Last(mashed_arms).body.stmts[3].skind = "Expr"

\* a body that ends fallthrough: a break, or a block whose last statement is
\* a break with or without semicolon
EndsInBreak(b) ==
    \/ b.kind = "Break"
    \/ /\ b.kind = "Block"
       /\ Len(b.stmts) >= 1
       /\ b.stmts[Len(b.stmts)].skind \in {"Expr", "Semi"}
       /\ b.stmts[Len(b.stmts)].expr.kind = "Break"

\* C7: parse_arm classifies a body Break exactly when it is a break or a block
\* whose last statement is a break; a bare break becomes (); of a block the
\* trailing break alone is removed, the statements before it keep order and
\* content, and the new last statement loses its semicolon when it had one;
\* any other body is FallThru and unchanged.
C7_ParseArm ==
    ArmVisited =>
        /\ arm_ending = "Break" <=> EndsInBreak(VisitedArm.body)
        /\ arm_ending \in {"Break", "FallThru"}
        /\ VisitedArm.body.kind = "Break" => Last(arm_exprs) = ExprUnit
        /\ (VisitedArm.body.kind = "Block" /\ EndsInBreak(VisitedArm.body)) =>
              /\ Last(arm_exprs).kind = "Block"
              /\ Len(Last(arm_exprs).stmts) = Len(VisitedArm.body.stmts) - 1
              /\ \A p \in 1..(Len(VisitedArm.body.stmts) - 2) :
                    Last(arm_exprs).stmts[p] = VisitedArm.body.stmts[p]
              /\ Len(VisitedArm.body.stmts) >= 2 =>
                    /\ Last(Last(arm_exprs).stmts).expr =
                           VisitedArm.body.stmts[Len(VisitedArm.body.stmts) - 1].expr
                    /\ Last(Last(arm_exprs).stmts).skind =
                           IF VisitedArm.body.stmts[Len(VisitedArm.body.stmts) - 1].skind = "Semi"
                           THEN "Expr"
                           ELSE VisitedArm.body.stmts[Len(VisitedArm.body.stmts) - 1].skind
        /\ ~EndsInBreak(VisitedArm.body) => Last(arm_exprs) = VisitedArm.body

C7_Witness ==
    /\ ArmVisited
    /\ pass = "first"
    /\ VisitedArm.body.kind = "Block"
    /\ Len(VisitedArm.body.stmts) = 3
    /\ EndsInBreak(VisitedArm.body)
    /\ VisitedArm.body.stmts[2].skind = "Semi"
    /\ Last(arm_exprs).stmts[2].skind = "Expr"
    /\ arm_ending = "Break"

\* C8: the panic of as_arm_body is never reached: the accumulator is not empty
\* once an arm has been visited, and a match without arms synthesizes nothing.
C8_NoPanic ==
    /\ pc # "panic"
    /\ ArmVisited => Len(arm_exprs) >= 1
    /\ (pc = "arms" /\ Len(CurArms) = 0) =>
          mashed_arms = <<>> /\ arm_exprs = <<>> /\ arm_ending = "None"

C8_Witness ==
    /\ ArmVisited
    /\ Len(mashed_arms) >= 2
    /\ arm_ending = "Break"
    /\ Len(arm_exprs) = 1

\* the nearest Break arm at or below arm i, the last arm when there is none
ChainEnd(arms, i) ==
    IF \E k \in i..Len(arms) : IsBreakArm(arms[k])
    THEN CHOOSE k \in i..Len(arms) :
             /\ IsBreakArm(arms[k])
             /\ \A m \in i..(k - 1) : ~IsBreakArm(arms[m])
    ELSE Len(arms)

\* C9: the accumulator is empty when the scan of a match starts, whatever an
\* earlier match left; after arm i is visited it holds the break-stripped
\* bodies of arms e(i), e(i)-1, .., i in push order, e(i) the nearest Break arm
\* at or below i or the last arm; only its oldest entry can be the body of a
\* Break arm.
C9_Accumulator ==
    pc = "arms" =>
        /\ Len(mashed_arms) = 0 => arm_exprs = <<>>
        /\ Len(mashed_arms) >= 1 =>
              /\ Len(arm_exprs) = ChainEnd(CurArms, VisitedIdx) - VisitedIdx + 1
              /\ \A p \in 1..Len(arm_exprs) :
                    arm_exprs[p] =
                        Stripped(CurArms)[ChainEnd(CurArms, VisitedIdx) - p + 1]
              /\ \A p \in 2..Len(arm_exprs) :
                    ~IsBreakArm(CurArms[ChainEnd(CurArms, VisitedIdx) - p + 1])

C9_Witness ==
    /\ pc = "arms"
    /\ pass = "first"
    /\ stmt_idx = 1
    /\ IsTopMatch(item.stmts[1])
    /\ Len(item.stmts[1].expr.arms) >= 1
    /\ Len(mashed_arms) = 2
    /\ Len(arm_exprs) = 2
    /\ IsBreakArm(CurArms[VisitedIdx + 1])

\* C10: the rewrite is not idempotent.  In the second application every arm
\* body is a block that does not end in a break, every arm is classified
\* FallThru, and arm 0 of a match with at least two arms becomes the chain of
\* the once-rewritten bodies of all the arms, which differs from its
\* once-rewritten body.
C10_NotIdempotent ==
    pass = "second" =>
        /\ item.isfn =>
              \A j \in MatchIdx : \A a \in 1..Len(InArms(j)) :
                  /\ InArms(j)[a].body.kind = "Block"
                  /\ Len(InArms(j)[a].body.stmts) >= 1
                  /\ ~EndsInBreak(InArms(j)[a].body)
        /\ ArmVisited => arm_ending = "FallThru"
        /\ Returned =>
              \A j \in MatchIdx :
                  Len(InArms(j)) >= 2 =>
                      /\ OutArms(j)[1].body =
                             ExprBlock(ChainStmts(Bodies(InArms(j)), 1, Len(InArms(j))))
                      /\ OutArms(j)[1].body # InArms(j)[1].body

C10_Witness ==
    /\ pass = "second"
    /\ Returned
    /\ \E j \in MatchIdx :
          /\ Len(InArms(j)) >= 3
          /\ Len(InArms(j)[1].body.stmts) = 1
          /\ Len(OutArms(j)[1].body.stmts) = Len(InArms(j))

====
